---- MODULE Spec2Model ----
(***************************************************************************)
(* Thumbnail generator: the three API route handlers (edit, generate,      *)
(* saveMask) and the browser session (Home page with the editor component  *)
(* it mounts), as state machines.                                          *)
(*                                                                         *)
(* JavaScript values are modelled as strings; NULL and UNDEF stand for     *)
(* null and undefined.  An error message is a sequence of text pieces, so  *)
(* that "the message contains the remote's text" can be checked.           *)
(***************************************************************************)
EXTENDS Integers, Sequences, FiniteSets, TLC

NULL == "<null>"
UNDEF == "<undefined>"

\* JavaScript truthiness of a string-or-null value: !v is TRUE for null,
\* undefined and the empty string.
Truthy(v) == v \notin {NULL, UNDEF, ""}

(***************************************************************************)
(* Server side: one request served by one route handler.                   *)
(***************************************************************************)
VARIABLES
  route,           \* which handler serves the request: "edit", "generate", "saveMask"
  reqBody,         \* the request: [parsed, prompt, image, mask, maskData]
  srvPc,           \* the handler's position (the await it is suspended at)
  attempts,        \* edit handler: let attempts
  resultImageUrl,  \* edit handler: let resultImageUrl
  lastPoll,        \* the result of the latest replicate.predictions.get
  response,        \* the HTTP response, status 0 while none was sent
  nCreate,         \* replicate.predictions.create calls issued
  nPolls,          \* predictions.get / replicate.wait calls issued
  nDbWrites,       \* Thumbnail.create calls issued
  nFileWrites      \* writeFile calls issued

srvVars == <<route, reqBody, srvPc, attempts, resultImageUrl, lastPoll,
             response, nCreate, nPolls, nDbWrites, nFileWrites>>

(***************************************************************************)
(* Browser side: the Home page and the editor component it mounts.  Home    *)
(* imports ThumbnailEditor, which the source defines twice (TE1, TE2);      *)
(* ImageEditor (IE) takes the same props but onCancel and is modelled in    *)
(* the same place.                                                          *)
(***************************************************************************)
VARIABLES
  variant,         \* the editor component: "IE" ImageEditor, "TE1" and "TE2" the
                   \* first and second ThumbnailEditor definition
  disp,            \* the canvas's display size <<width, height>> (layout)
  hLoading,        \* Home: loading
  hPrompt,         \* Home: prompt
  generatedImage,  \* Home: generatedImage, the editor's imageUrl prop
  isEditing,       \* Home: isEditing
  hError,          \* Home: error
  gens,            \* /api/generate requests in flight
  eLoading,        \* editor: loading
  ePrompt,         \* editor: prompt
  eError,          \* editor: error
  isDrawing,       \* editor: isDrawing (isSelecting in TE1)
  startPos,        \* editor: startPos (startPoint in TE1, null at first)
  selection,       \* editor: selection
  canvas,          \* canvasRef.current: [width, height]
  dataset,         \* canvas.dataset.originalWidth / originalHeight
  loads,           \* image loads of the mounted editor whose onload is pending
  edits,           \* handleEdit invocations suspended at an await
  dragFrom,        \* history: the mouse position of the last mouse-down
  drag             \* history: what the selection was made from, <<from, to, s, c>>:
                   \* the mouse positions of the mouse-down and of the latest
                   \* mouse-move, and the points s, c the handlers made of them
VARIABLES
  lastClose        \* history: how the editor was last closed, "edited" by onEdit,
                   \* "cancelled" by onCancel, "none" since it was opened

uiVars == <<variant, disp, hLoading, hPrompt, generatedImage, isEditing, hError,
            gens, eLoading, ePrompt, eError, isDrawing, startPos, selection,
            canvas, dataset, loads, edits, dragFrom, drag, lastClose>>

(***************************************************************************)
(* The size snapper of the edit route's file: one call of                   *)
(* getNearestValidSize.                                                      *)
(***************************************************************************)
VARIABLES
  snapArgs,        \* the arguments <<width, height>> of the call
  snapRet          \* how the call ended: not yet, returned a pair, or threw

snapVars == <<snapArgs, snapRet>>

editorVars == <<eLoading, ePrompt, eError, isDrawing, startPos, selection,
                canvas, dataset, loads, dragFrom, drag>>

maxAttempts == 60

\* A field of the JSON body: absent, the empty string, or a value.
Field == {UNDEF, "", "x"}

Routes == {"edit", "generate", "saveMask"}

\* The bodies a client can send to each route; parsed = FALSE is a body that
\* req.json() rejects.
Bodies(r) ==
  LET none == [parsed |-> TRUE, prompt |-> UNDEF, image |-> UNDEF,
               mask |-> UNDEF, maskData |-> UNDEF]
  IN  {[none EXCEPT !.parsed = FALSE]} \cup
      CASE r = "edit" ->
             {[none EXCEPT !.prompt = p, !.image = i, !.mask = m] :
                p \in Field, i \in Field, m \in Field}
        [] r = "generate" -> {[none EXCEPT !.prompt = p] : p \in Field}
        [] r = "saveMask" -> {[none EXCEPT !.maskData = d] : d \in Field}

\* What the prediction service can report to one predictions.get.
Statuses == {"starting", "processing", "succeeded", "failed", "canceled"}
RemoteErrors == {NULL, "boom"}
Outputs ==
  { [kind |-> "null", items |-> <<>>],
    [kind |-> "str",  items |-> <<"">>],
    [kind |-> "str",  items |-> <<"url1">>],
    [kind |-> "list", items |-> <<>>],
    [kind |-> "list", items |-> <<"url1", "url2">>] }

NoPoll == [threw |-> FALSE, status |-> "none", error |-> NULL,
           output |-> [kind |-> "null", items |-> <<>>]]
PollThrew == [NoPoll EXCEPT !.threw = TRUE]
PollResults ==
  {PollThrew} \cup
  {[threw |-> FALSE, status |-> s, error |-> e, output |-> o] :
     s \in Statuses, e \in RemoteErrors, o \in Outputs}

\* Array.isArray(result.output) ? result.output[0] : result.output
OutputUrl(o) ==
  CASE o.kind = "list" -> IF Len(o.items) > 0 THEN o.items[1] ELSE UNDEF
    [] o.kind = "str"  -> o.items[1]
    [] OTHER           -> NULL

NoResponse == [status |-> 0, error |-> <<>>, imageUrl |-> UNDEF]
Respond(st, err, url) == [status |-> st, error |-> err, imageUrl |-> url]

\* The catch block of every handler: status 500 with the thrown message.
Caught(msg) == Respond(500, msg, UNDEF)

TimeoutMsg == <<"Timeout waiting for image generation">>
FailedMsg == <<"Image generation failed">>
NetworkMsg == <<"fetch failed">>
ParseMsg == <<"Unexpected token in JSON">>
\* A variant of ReplicateErrorMsg that drops the remote's text.
ReplicateErrorMsgGeneric(e) == <<"Replicate error">>

\* `Replicate error: ${result.error}`
ReplicateErrorMsg(e) == <<"Replicate error: ", e>>

ServerInit ==
  /\ route \in Routes
  /\ reqBody \in Bodies(route)
  /\ srvPc = "start"
  /\ attempts = 0
  /\ resultImageUrl = NULL
  /\ lastPoll = NoPoll
  /\ response = NoResponse
  /\ nCreate = 0
  /\ nPolls = 0
  /\ nDbWrites = 0
  /\ nFileWrites = 0

Finish(resp) ==
  /\ response' = resp
  /\ srvPc' = "done"

\* A variant of EditMissing that forgets the mask.
EditMissingNoMask(b) == ~Truthy(b.prompt) \/ ~Truthy(b.image)

\* edit route: !prompt || !image || !mask
EditMissing(b) == ~Truthy(b.prompt) \/ ~Truthy(b.image) \/ ~Truthy(b.mask)

\* edit route, up to its first await after the body.
EditStart ==
  /\ route = "edit" /\ srvPc = "start"
  /\ IF ~reqBody.parsed THEN Finish(Caught(ParseMsg))
     ELSE IF EditMissing(reqBody)
       THEN Finish(Respond(400, <<"Missing required fields (prompt, image, mask)">>, UNDEF))
       ELSE srvPc' = "create" /\ UNCHANGED response
  /\ UNCHANGED <<uiVars, snapVars, route, reqBody, attempts, resultImageUrl, lastPoll,
                 nCreate, nPolls, nDbWrites, nFileWrites>>

\* await replicate.predictions.create(...), then the loop's first test.
EditCreate ==
  /\ route = "edit" /\ srvPc = "create"
  /\ nCreate' = nCreate + 1
  /\ \E ok \in BOOLEAN :
       IF ok
         THEN /\ srvPc' = "poll"
              /\ attempts' = 0
              /\ resultImageUrl' = NULL
              /\ UNCHANGED response
         ELSE /\ Finish(Caught(NetworkMsg))
              /\ UNCHANGED <<attempts, resultImageUrl>>
  /\ UNCHANGED <<uiVars, snapVars, route, reqBody, lastPoll, nPolls, nDbWrites, nFileWrites>>

\* The statements after the loop: the falsy test of resultImageUrl.
AfterLoop(url) ==
  IF ~Truthy(url) THEN Caught(TimeoutMsg) ELSE Respond(200, <<>>, url)

\* One pass of the loop body up to its await: predictions.get and the three
\* tests on its result.
EditPoll ==
  /\ route = "edit" /\ srvPc = "poll"
  /\ attempts < maxAttempts
  /\ nPolls' = nPolls + 1
  /\ \E r \in PollResults :
       /\ lastPoll' = r
       /\ IF r.threw
            THEN Finish(Caught(NetworkMsg)) /\ UNCHANGED resultImageUrl
          ELSE IF Truthy(r.error)
            THEN Finish(Caught(ReplicateErrorMsg(r.error))) /\ UNCHANGED resultImageUrl
          ELSE IF r.status = "succeeded"
            THEN /\ resultImageUrl' = OutputUrl(r.output)
                 /\ Finish(AfterLoop(OutputUrl(r.output)))
          ELSE IF r.status = "failed"
            THEN Finish(Caught(FailedMsg)) /\ UNCHANGED resultImageUrl
          ELSE srvPc' = "sleep" /\ UNCHANGED <<response, resultImageUrl>>
  /\ UNCHANGED <<uiVars, snapVars, route, reqBody, attempts, nCreate, nDbWrites, nFileWrites>>

\* The delay resolves: attempts++ and the loop test; leaving the loop runs
\* the statements after it.
EditSleep ==
  /\ route = "edit" /\ srvPc = "sleep"
  /\ attempts' = attempts + 1
  /\ IF attempts + 1 < maxAttempts
       THEN srvPc' = "poll" /\ UNCHANGED response
       ELSE Finish(AfterLoop(resultImageUrl))
  /\ UNCHANGED <<uiVars, snapVars, route, reqBody, resultImageUrl, lastPoll, nCreate, nPolls,
                 nDbWrites, nFileWrites>>

\* generate route: what replicate.wait resolves to (output.output[0] a string,
\* a ReadableStream of the text, or a value failing the truthiness test).
WaitResults == {"throws", "invalid", "string", "stream"}

GenStart ==
  /\ route = "generate" /\ srvPc = "start"
  /\ IF ~reqBody.parsed THEN Finish(Caught(ParseMsg))
     ELSE IF ~Truthy(reqBody.prompt)
       THEN Finish(Respond(400, <<"Prompt is required">>, UNDEF))
       ELSE srvPc' = "create" /\ UNCHANGED response
  /\ UNCHANGED <<uiVars, snapVars, route, reqBody, attempts, resultImageUrl, lastPoll,
                 nCreate, nPolls, nDbWrites, nFileWrites>>

GenCreate ==
  /\ route = "generate" /\ srvPc = "create"
  /\ nCreate' = nCreate + 1
  /\ \E ok \in BOOLEAN :
       IF ok THEN srvPc' = "wait" /\ UNCHANGED response
             ELSE Finish(Caught(NetworkMsg))
  /\ UNCHANGED <<uiVars, snapVars, route, reqBody, attempts, resultImageUrl, lastPoll, nPolls,
                 nDbWrites, nFileWrites>>

\* await replicate.wait(prediction) and the test of output.output[0].
GenWait ==
  /\ route = "generate" /\ srvPc = "wait"
  /\ nPolls' = nPolls + 1
  /\ \E w \in WaitResults :
       CASE w = "throws"  -> Finish(Caught(NetworkMsg)) /\ UNCHANGED resultImageUrl
         [] w = "invalid" ->
              /\ Finish(Caught(<<"Invalid response format from image generation service">>))
              /\ UNCHANGED resultImageUrl
         [] w = "string"  ->
              /\ resultImageUrl' = "url1"
              /\ srvPc' = "connectDB" /\ UNCHANGED response
         [] w = "stream"  -> srvPc' = "readStream" /\ UNCHANGED <<response, resultImageUrl>>
  /\ UNCHANGED <<uiVars, snapVars, route, reqBody, attempts, lastPoll, nCreate, nDbWrites, nFileWrites>>

\* await streamToString(output.output[0])
GenReadStream ==
  /\ route = "generate" /\ srvPc = "readStream"
  /\ \E ok \in BOOLEAN :
       IF ok THEN /\ resultImageUrl' = "url1"
                  /\ srvPc' = "connectDB" /\ UNCHANGED response
             ELSE Finish(Caught(NetworkMsg)) /\ UNCHANGED resultImageUrl
  /\ UNCHANGED <<uiVars, snapVars, route, reqBody, attempts, lastPoll, nCreate, nPolls,
                 nDbWrites, nFileWrites>>

\* await connectDB()
GenConnectDB ==
  /\ route = "generate" /\ srvPc = "connectDB"
  /\ \E ok \in BOOLEAN :
       IF ok THEN srvPc' = "dbCreate" /\ UNCHANGED response
             ELSE Finish(Caught(<<"db connect failed">>))
  /\ UNCHANGED <<uiVars, snapVars, route, reqBody, attempts, resultImageUrl, lastPoll, nCreate,
                 nPolls, nDbWrites, nFileWrites>>

\* await Thumbnail.create({prompt, imageUrl}) and the response.
GenDbCreate ==
  /\ route = "generate" /\ srvPc = "dbCreate"
  /\ nDbWrites' = nDbWrites + 1
  /\ \E ok \in BOOLEAN :
       IF ok THEN Finish(Respond(200, <<>>, resultImageUrl))
             ELSE Finish(Caught(<<"db write failed">>))
  /\ UNCHANGED <<uiVars, snapVars, route, reqBody, attempts, resultImageUrl, lastPoll, nCreate,
                 nPolls, nFileWrites>>

SaveStart ==
  /\ route = "saveMask" /\ srvPc = "start"
  /\ IF ~reqBody.parsed THEN Finish(Caught(ParseMsg))
     ELSE IF ~Truthy(reqBody.maskData)
       THEN Finish(Respond(400, <<"Missing mask data">>, UNDEF))
       ELSE srvPc' = "write" /\ UNCHANGED response
  /\ UNCHANGED <<uiVars, snapVars, route, reqBody, attempts, resultImageUrl, lastPoll,
                 nCreate, nPolls, nDbWrites, nFileWrites>>

\* await writeFile(filePath, buffer) and the response.
SaveWrite ==
  /\ route = "saveMask" /\ srvPc = "write"
  /\ nFileWrites' = nFileWrites + 1
  /\ \E ok \in BOOLEAN :
       IF ok THEN Finish(Respond(200, <<>>, UNDEF))
             ELSE Finish(Caught(<<"EACCES">>))
  /\ UNCHANGED <<uiVars, snapVars, route, reqBody, attempts, resultImageUrl, lastPoll, nCreate,
                 nPolls, nDbWrites>>

ServerStep ==
  \/ EditStart \/ EditCreate \/ EditPoll \/ EditSleep
  \/ GenStart \/ GenCreate \/ GenWait \/ GenReadStream \/ GenConnectDB \/ GenDbCreate
  \/ SaveStart \/ SaveWrite

\* The server as it is before any request was taken; the browser's
\* specification leaves it there.
ServerIdle ==
  /\ route = "edit"
  /\ reqBody = [parsed |-> FALSE, prompt |-> UNDEF, image |-> UNDEF,
                mask |-> UNDEF, maskData |-> UNDEF]
  /\ srvPc = "idle"
  /\ attempts = 0
  /\ resultImageUrl = NULL
  /\ lastPoll = NoPoll
  /\ response = NoResponse
  /\ nCreate = 0 /\ nPolls = 0 /\ nDbWrites = 0 /\ nFileWrites = 0

(***************************************************************************)
(* Numbers of the browser side.  A JavaScript number is modelled as an      *)
(* extended rational <<n, d>> in lowest terms, d >= 0: <<1, 0>> is          *)
(* Infinity, <<-1, 0>> is -Infinity and <<0, 0>> is NaN, so that a division *)
(* by a zero display size yields what the division yields in the browser.   *)
(***************************************************************************)
RECURSIVE GCD(_, _)
GCD(a, b) == IF b = 0 THEN a ELSE GCD(b, a % b)

AbsInt(i) == IF i < 0 THEN -i ELSE i
Sign(i) == IF i < 0 THEN -1 ELSE IF i > 0 THEN 1 ELSE 0

Norm(n, d) ==
  IF d = 0 THEN <<Sign(n), 0>>
  ELSE LET g == GCD(AbsInt(n), d) IN <<n \div g, d \div g>>

Num(i) == <<i, 1>>
NaN == <<0, 0>>
IsNaN(a) == a = NaN
IsFinite(a) == a[2] # 0

\* a * b, a / b (b >= 0), a - b, Math.abs, Math.min, Math.round
NumMul(a, b) == Norm(a[1] * b[1], a[2] * b[2])
NumDiv(a, b) == Norm(a[1] * b[2], a[2] * b[1])
NumSub(a, b) == Norm(a[1] * b[2] - b[1] * a[2], a[2] * b[2])
MathAbs(a) == <<AbsInt(a[1]), a[2]>>
NumLess(a, b) == ~IsNaN(a) /\ ~IsNaN(b) /\ a[1] * b[2] < b[1] * a[2]
MathMin(a, b) == IF IsNaN(a) \/ IsNaN(b) THEN NaN ELSE IF NumLess(b, a) THEN b ELSE a
MathRound(a) ==
  IF ~IsFinite(a) THEN a ELSE Num((2 * a[1] + a[2]) \div (2 * a[2]))

\* A value that may be null: <<>> is null, <<v>> is v.
None == <<>>
Some(v) == <<v>>
IsSome(o) == o # <<>>
Val(o) == o[1]

Variants == {"IE", "TE1", "TE2"}

\* The images the services return, and each one's native size.
Urls == {"imgA", "imgB"}
NaturalWidth(u) == IF u = "imgA" THEN 200 ELSE 50
NaturalHeight(u) == IF u = "imgA" THEN 200 ELSE 50

\* A canvas element's size before any script sets it (HTML: 300 x 150).
DefaultCanvasWidth == 300
DefaultCanvasHeight == 150
DefaultCanvas == [width |-> DefaultCanvasWidth, height |-> DefaultCanvasHeight]

\* The layouts and the mouse positions (clientX - rect.left, clientY - rect.top)
\* the model draws from; a position lies on the canvas.
DisplaySizes == {<<0, 0>>, <<100, 100>>, <<150, 100>>}
SmallDisplay == <<50, 50>>
TinyDisplay == <<10, 10>>
MouseOffsets == {<<0, 0>>, <<50, 50>>, <<100, 50>>}
MousePoints == {p \in MouseOffsets : p[1] <= disp[1] /\ p[2] <= disp[2]}

Prompts == {"", "cat"}

\* The cap on suspended handleEdit / generateThumbnail invocations.
MaxInFlight == 2

\* The editor is rendered: {generatedImage && (isEditing ? <editor/> : ...)}.
Mounted == isEditing /\ Truthy(generatedImage)

\* useState initial values of the editor and a fresh canvas element.
InitialStartPos ==
  IF variant = "TE1" THEN None ELSE Some([x |-> Num(0), y |-> Num(0)])

EditorReset ==
  /\ eLoading' = FALSE
  /\ ePrompt' = ""
  /\ eError' = NULL
  /\ isDrawing' = FALSE
  /\ startPos' = InitialStartPos
  /\ selection' = None
  /\ canvas' = DefaultCanvas
  /\ dataset' = None
  /\ dragFrom' = None
  /\ drag' = None

\* The editor mounts showing url: its image starts loading.
MountFresh(url) == EditorReset /\ loads' = {url}

\* A variant of Unmount in which the editor's selection outlives the editor.
UnmountKeepSelection ==
  /\ eLoading' = FALSE /\ ePrompt' = "" /\ eError' = NULL
  /\ isDrawing' = FALSE /\ startPos' = InitialStartPos
  /\ canvas' = DefaultCanvas /\ dataset' = None
  /\ dragFrom' = None /\ drag' = drag
  /\ selection' = selection
  /\ loads' = {}

\* The editor unmounts: its state is gone and its callbacks find no canvas.
Unmount == EditorReset /\ loads' = {}

\* The imageUrl prop of the mounted editor changes: the img element (IE) loads
\* the new source instead, the effect (TE1, TE2) starts one more Image.
PropChange(url) ==
  /\ loads' = IF variant = "IE" THEN {url} ELSE loads \cup {url}
  /\ UNCHANGED <<eLoading, ePrompt, eError, isDrawing, startPos, selection,
                 canvas, dataset, dragFrom, drag>>

Orphan(es) == [i \in DOMAIN es |-> [es[i] EXCEPT !.orphan = TRUE]]
Remove(es, i) == [j \in 1 .. Len(es) - 1 |-> IF j < i THEN es[j] ELSE es[j + 1]]

\* Home re-renders with the image newGen and the flag newEditing while es are
\* the suspended edits: the editor mounts, unmounts or gets a new prop.
Rerender(newGen, newEditing, es) ==
  LET will == newEditing /\ Truthy(newGen) IN
  CASE Mounted /\ ~will  -> Unmount /\ edits' = Orphan(es)
    [] ~Mounted /\ will  -> MountFresh(newGen) /\ edits' = es
    [] Mounted /\ will /\ newGen # generatedImage -> PropChange(newGen) /\ edits' = es
    [] OTHER -> UNCHANGED editorVars /\ edits' = es

\* Home's useState initial values; no editor is mounted.
HomeInit ==
  /\ hLoading = FALSE
  /\ hPrompt = ""
  /\ isEditing = FALSE
  /\ hError = NULL
  /\ gens = 0
  /\ eLoading = FALSE
  /\ ePrompt = ""
  /\ eError = NULL
  /\ isDrawing = FALSE
  /\ startPos = InitialStartPos
  /\ selection = None
  /\ canvas = DefaultCanvas
  /\ dataset = None
  /\ loads = {}
  /\ edits = <<>>
  /\ dragFrom = None
  /\ drag = None
  /\ lastClose = "none"

\* A session from the opening of the page, on a small layout.
UiInit ==
  /\ variant \in Variants
  /\ disp = SmallDisplay
  /\ generatedImage = NULL
  /\ HomeInit

\* A session from the opening of the page, on a layout so small that every
\* mouse event falls on the canvas's origin.
LiveInit ==
  /\ variant \in Variants
  /\ disp = TinyDisplay
  /\ generatedImage = NULL
  /\ HomeInit

\* A session in which a thumbnail was generated, on any layout.
CanvasInit ==
  /\ variant \in Variants
  /\ disp \in DisplaySizes
  /\ generatedImage \in Urls
  /\ HomeInit

(* ------------------------------ Home ---------------------------------- *)

\* textarea onChange; the form is rendered only while !isEditing.
TypePrompt ==
  /\ ~isEditing
  /\ \E p \in Prompts : p # hPrompt /\ hPrompt' = p
  /\ UNCHANGED <<srvVars, snapVars, variant, disp, lastClose, hLoading, generatedImage, isEditing, hError, gens,
                 editorVars, edits>>

\* The form's submit button (disabled={loading || !prompt}) runs
\* generateThumbnail up to its await fetch("/api/generate").
ClickGenerate ==
  /\ ~isEditing
  /\ ~(hLoading \/ ~Truthy(hPrompt))
  /\ gens < MaxInFlight
  /\ hLoading' = TRUE
  /\ hError' = NULL
  /\ gens' = gens + 1
  /\ UNCHANGED <<srvVars, snapVars, variant, disp, lastClose, hPrompt, generatedImage, isEditing, editorVars, edits>>

\* What a fetch and the reading of its body can come to.
RespKinds == {"reject", "badJsonOk", "badJsonNotOk", "notOk", "notOkNoError",
              "okUrl", "okNoUrl"}

\* generateThumbnail after its awaits: try, catch and finally.
GenerateThrown(k) ==
  CASE k = "reject"       -> "Failed to fetch"
    [] k \in {"badJsonOk", "badJsonNotOk"} -> "Unexpected token in JSON"
    [] k = "notOk"        -> "server error"
    [] k = "notOkNoError" -> "Failed to generate thumbnail"
    [] OTHER              -> NULL

GenerateResponse ==
  /\ gens > 0
  /\ gens' = gens - 1
  /\ \E k \in RespKinds, u \in Urls :
       LET newGen == CASE k = "okUrl"   -> u
                       [] k = "okNoUrl" -> UNDEF
                       [] OTHER         -> generatedImage
       IN  /\ generatedImage' = newGen
           /\ hError' = IF k \in {"okUrl", "okNoUrl"} THEN hError ELSE GenerateThrown(k)
           /\ hLoading' = FALSE
           /\ Rerender(newGen, isEditing, edits)
  /\ UNCHANGED <<srvVars, snapVars, variant, disp, lastClose, hPrompt, isEditing>>

\* The "Edit Thumbnail" button: onClick={() => setIsEditing(true)}.
ClickEditThumbnail ==
  /\ Truthy(generatedImage) /\ ~isEditing
  /\ isEditing' = TRUE
  /\ lastClose' = "none"
  /\ Rerender(generatedImage, TRUE, edits)
  /\ UNCHANGED <<srvVars, snapVars, variant, disp, hLoading, hPrompt, generatedImage, hError, gens>>

(* ------------------------------ editor -------------------------------- *)

\* Input onChange, disabled={loading}.
TypeEditPrompt ==
  /\ Mounted /\ ~eLoading
  /\ \E p \in Prompts : p # ePrompt /\ ePrompt' = p
  /\ UNCHANGED <<srvVars, snapVars, variant, disp, lastClose, hLoading, hPrompt, generatedImage, isEditing, hError,
                 gens, eLoading, eError, isDrawing, startPos, selection, canvas,
                 dataset, loads, edits, dragFrom, drag>>

\* The image's onload: the canvas takes the image's native size (all three),
\* and the dataset records it (TE1, TE2).
ImageLoaded ==
  /\ Mounted
  /\ \E u \in loads :
       /\ loads' = loads \ {u}
       /\ canvas' = [width |-> NaturalWidth(u), height |-> NaturalHeight(u)]
       /\ dataset' = IF variant = "IE" THEN dataset
                     ELSE Some([width |-> NaturalWidth(u), height |-> NaturalHeight(u)])
  /\ UNCHANGED <<srvVars, snapVars, variant, disp, lastClose, hLoading, hPrompt, generatedImage, isEditing, hError,
                 gens, eLoading, ePrompt, eError, isDrawing, startPos, selection, edits,
                 dragFrom, drag>>

\* The mouse position in the coordinates the handlers keep: IE keeps
\* clientX - rect.left as it is; getCanvasPoint (TE1) and startDrawing / draw
\* (TE2) multiply by canvas.width / rect.width and canvas.height / rect.height.
getCanvasPoint(p) ==
  IF variant = "IE"
    THEN [x |-> Num(p[1]), y |-> Num(p[2])]
    ELSE LET scaleX == NumDiv(Num(canvas.width), Num(disp[1]))
             scaleY == NumDiv(Num(canvas.height), Num(disp[2]))
         IN  [x |-> NumMul(Num(p[1]), scaleX), y |-> NumMul(Num(p[2]), scaleY)]

\* onMouseDown: startDrawing (IE, which also clears the selection; TE2),
\* handleMouseDown (TE1).
MouseDown ==
  /\ Mounted
  /\ \E p \in MousePoints :
       /\ startPos' = Some(getCanvasPoint(p))
       /\ isDrawing' = TRUE
       /\ selection' = IF variant = "IE" THEN None ELSE selection
       /\ dragFrom' = Some(p)
       /\ drag' = IF variant = "IE" THEN None ELSE drag
  /\ UNCHANGED <<srvVars, snapVars, variant, disp, lastClose, hLoading, hPrompt, generatedImage, isEditing, hError,
                 gens, eLoading, ePrompt, eError, canvas, dataset, loads, edits>>

\* The selection set by draw / handleMouseMove for the drag from s to c.
DragRect(s, c) ==
  [x |-> MathMin(s.x, c.x),
   y |-> MathMin(s.y, c.y),
   width |-> MathAbs(NumSub(c.x, s.x)),
   height |-> MathAbs(NumSub(c.y, s.y))]

\* onMouseMove: draw (IE, TE2), handleMouseMove (TE1).
MouseMove ==
  /\ Mounted
  /\ isDrawing /\ IsSome(startPos)
  /\ \E p \in MousePoints :
       /\ selection' = Some(DragRect(Val(startPos), getCanvasPoint(p)))
       /\ drag' = IF IsSome(dragFrom)
                    THEN Some(<<Val(dragFrom), p, Val(startPos), getCanvasPoint(p)>>)
                    ELSE None
  /\ UNCHANGED <<srvVars, snapVars, variant, disp, lastClose, hLoading, hPrompt, generatedImage, isEditing, hError,
                 gens, eLoading, ePrompt, eError, isDrawing, startPos, canvas,
                 dataset, loads, edits, dragFrom>>

\* onMouseUp and onMouseLeave: stopDrawing (IE, TE2), handleMouseUp (TE1).
MouseUp ==
  /\ Mounted
  /\ isDrawing' = FALSE
  /\ startPos' = IF variant = "TE1" THEN None ELSE startPos
  /\ UNCHANGED <<srvVars, snapVars, variant, disp, lastClose, hLoading, hPrompt, generatedImage, isEditing, hError,
                 gens, eLoading, ePrompt, eError, selection, canvas, dataset, loads,
                 edits, dragFrom, drag>>

\* The submit button's disabled attribute and handleEdit's first line.
SubmitEnabled == ~(eLoading \/ ~IsSome(selection) \/ ~Truthy(ePrompt))

\* The mask bitmap: its pixel size and the rectangle given to fillRect.
Mask(w, h, rect) == [width |-> w, height |-> h, fill |-> rect]

\* createMask (IE) and the mask canvas of TE1: the size of the canvas, the
\* selection as it is.
createMask(sel) == Mask(canvas.width, canvas.height, sel)

\* The mask canvas of TE2: the size read from the dataset, the selection
\* multiplied by original / offset size and rounded.
ScaledMask(orig, sel) ==
  LET scaleX == NumDiv(Num(orig.width), Num(disp[1]))
      scaleY == NumDiv(Num(orig.height), Num(disp[2]))
  IN  Mask(orig.width, orig.height,
           [x |-> MathRound(NumMul(sel.x, scaleX)),
            y |-> MathRound(NumMul(sel.y, scaleY)),
            width |-> MathRound(NumMul(sel.width, scaleX)),
            height |-> MathRound(NumMul(sel.height, scaleY))])

\* The body of the /api/edit request; src is the image it was made from.
EditRequest(p, src, w, h, m) ==
  [prompt |-> p, src |-> src, image |-> [width |-> w, height |-> h], mask |-> m]

\* A handleEdit invocation suspended at an await.
Pending(stage, orig, req) ==
  [stage |-> stage, orphan |-> FALSE, sel |-> Val(selection), prompt |-> ePrompt,
   url |-> generatedImage, orig |-> orig, req |-> req, drag |-> drag]

NoDims == [width |-> 0, height |-> 0]

\* handleEdit up to its first await.
ClickApply ==
  /\ Mounted /\ SubmitEnabled
  /\ Len(edits) < MaxInFlight
  /\ CASE variant = "IE" ->
            /\ eLoading' = TRUE /\ eError' = NULL
            /\ edits' = Append(edits, Pending("fetch", NoDims,
                 Some(EditRequest(ePrompt, generatedImage,
                                  NaturalWidth(generatedImage),
                                  NaturalHeight(generatedImage),
                                  createMask(Val(selection))))))
       [] variant = "TE1" ->
            /\ eLoading' = TRUE /\ eError' = NULL
            /\ edits' = Append(edits, Pending("saveMask", NoDims,
                 Some(EditRequest(ePrompt, generatedImage, canvas.width,
                                  canvas.height, createMask(Val(selection))))))
       [] variant = "TE2" ->
            IF ~IsSome(dataset)
              THEN /\ eLoading' = FALSE
                   /\ eError' = "Original image dimensions not found"
                   /\ UNCHANGED edits
              ELSE /\ eLoading' = TRUE /\ eError' = NULL
                   /\ edits' = Append(edits, Pending("imgLoad", Val(dataset), None))
  /\ UNCHANGED <<srvVars, snapVars, variant, disp, lastClose, hLoading, hPrompt, generatedImage, isEditing, hError,
                 gens, ePrompt, isDrawing, startPos, selection, canvas, dataset, loads,
                 dragFrom, drag>>

\* A variant of EditFailed without the finally block: loading is not reset.
EditFailedNoFinally(e, msg) ==
  /\ IF e.orphan THEN UNCHANGED eError ELSE eError' = msg
  /\ UNCHANGED <<eLoading, hLoading, hPrompt, generatedImage, isEditing, hError, gens,
                 ePrompt, isDrawing, startPos, selection, canvas, dataset, loads,
                 dragFrom, drag>>

\* catch and finally of handleEdit: setError and setLoading(false), which do
\* nothing once the editor that started the edit is unmounted.
EditFailed(e, msg) ==
  /\ IF e.orphan THEN UNCHANGED <<eLoading, eError>>
                 ELSE eLoading' = FALSE /\ eError' = msg
  /\ UNCHANGED <<hLoading, hPrompt, generatedImage, isEditing, hError, gens,
                 ePrompt, isDrawing, startPos, selection, canvas, dataset, loads,
                 dragFrom, drag>>

\* TE1: await fetch('/api/saveMask') settles; its response is not read.
SaveMaskOutcomes == {"200", "400", "500", "reject"}

SaveMaskDone ==
  \E i \in DOMAIN edits :
    /\ edits[i].stage = "saveMask"
    /\ \E o \in SaveMaskOutcomes :
         IF o = "reject"
           THEN /\ EditFailed(edits[i], "Failed to fetch")
                /\ edits' = Remove(edits, i)
           ELSE /\ edits' = [edits EXCEPT ![i].stage = "fetch"]
                /\ UNCHANGED <<hLoading, hPrompt, generatedImage, isEditing, hError,
                               gens, editorVars>>
    /\ UNCHANGED <<srvVars, snapVars, variant, disp, lastClose>>

\* TE2: the await of the image load settles; the mask is made and the request
\* sent.  canvasRef.current is null once the editor is unmounted.
EditImgLoaded ==
  \E i \in DOMAIN edits :
    /\ edits[i].stage = "imgLoad"
    /\ \E ok \in BOOLEAN :
         IF ~ok \/ edits[i].orphan
           THEN /\ EditFailed(edits[i], "Something went wrong")
                /\ edits' = Remove(edits, i)
           ELSE /\ edits' = [edits EXCEPT
                     ![i].stage = "fetch",
                     ![i].req = Some(EditRequest(edits[i].prompt, edits[i].url,
                                       edits[i].orig.width, edits[i].orig.height,
                                       ScaledMask(edits[i].orig, edits[i].sel)))]
                /\ UNCHANGED <<hLoading, hPrompt, generatedImage, isEditing, hError,
                               gens, editorVars>>
    /\ UNCHANGED <<srvVars, snapVars, variant, disp, lastClose>>

\* The message handleEdit throws for a response of kind k.
EditThrown(k) ==
  CASE k = "reject" -> "Failed to fetch"
    [] k = "notOk" -> "server error"
    [] k = "notOkNoError" ->
         IF variant = "IE" THEN "Failed to edit image" ELSE "Failed to edit image: 500"
    [] k = "badJsonNotOk" ->
         IF variant = "IE" THEN "Unexpected token in JSON" ELSE "Failed to edit image: 500"
    [] k = "badJsonOk" -> "Unexpected token in JSON"
    [] k = "okNoUrl" -> "No image URL received from server"
    [] OTHER -> NULL

\* Whether handleEdit reaches onEdit for a response of kind k: IE calls
\* onEdit(data.imageUrl) for every ok response, TE1 and TE2 test the URL.
EditSucceeds(k) == k = "okUrl" \/ (variant = "IE" /\ k = "okNoUrl")

\* handleEditedImage: setGeneratedImage(editedImageUrl); setIsEditing(false).
\* await fetch('/api/edit') settles and handleEdit runs to its end.
EditResponse ==
  \E i \in DOMAIN edits :
    /\ edits[i].stage = "fetch"
    /\ \E k \in RespKinds, u \in Urls :
         IF EditSucceeds(k)
           THEN LET newGen == IF k = "okUrl" THEN u ELSE UNDEF IN
                /\ generatedImage' = newGen
                /\ isEditing' = FALSE
                /\ lastClose' = "edited"
                /\ Rerender(newGen, FALSE, Remove(edits, i))
                /\ UNCHANGED <<hLoading, hPrompt, hError, gens>>
           ELSE /\ EditFailed(edits[i], EditThrown(k))
                /\ edits' = Remove(edits, i)
                /\ UNCHANGED lastClose
    /\ UNCHANGED <<srvVars, snapVars, variant, disp>>

\* The Cancel button (TE1, TE2), disabled={loading}: TE1 clears the selection,
\* both call onCancel, () => setIsEditing(false).
ClickCancel ==
  /\ Mounted /\ variant \in {"TE1", "TE2"}
  /\ ~eLoading
  /\ isEditing' = FALSE
  /\ lastClose' = "cancelled"
  /\ Rerender(generatedImage, FALSE, edits)
  /\ UNCHANGED <<srvVars, snapVars, variant, disp, hLoading, hPrompt, generatedImage, hError, gens>>

EditorStep ==
  \/ ClickEditThumbnail
  \/ TypeEditPrompt \/ ImageLoaded \/ MouseDown \/ MouseMove \/ MouseUp
  \/ ClickApply \/ SaveMaskDone \/ EditImgLoaded \/ EditResponse \/ ClickCancel

UiStep ==
  \/ TypePrompt \/ ClickGenerate \/ GenerateResponse
  \/ EditorStep

\* The browser as it is before the page is opened; the server's
\* specification leaves it there.
UiIdle ==
  /\ variant = "IE"
  /\ disp = <<0, 0>>
  /\ hLoading = FALSE /\ hPrompt = "" /\ generatedImage = NULL
  /\ isEditing = FALSE /\ hError = NULL /\ gens = 0
  /\ eLoading = FALSE /\ ePrompt = "" /\ eError = NULL /\ isDrawing = FALSE
  /\ startPos = None /\ selection = None /\ canvas = DefaultCanvas
  /\ dataset = None /\ loads = {} /\ edits = <<>>
  /\ dragFrom = None /\ drag = None /\ lastClose = "none"

(* --------------------------- size snapper ------------------------------ *)

\* const VALID_SIZES = [64, 128, ..., 1024]
VALID_SIZES == [i \in 1 .. 16 |-> 64 * i]

\* |curr - x|, the distance the callback of the reduce compares.
Distance(curr, x) == MathAbs(NumSub(Num(curr), x))

\* sizes.reduce((prev, curr) =>
\*   Math.abs(curr - x) < Math.abs(prev - x) ? curr : prev):
\* prev starts as the first element and is replaced only by an element
\* strictly nearer to x, so the reduce returns the first element than which
\* none is strictly nearer (the first one when x is NaN or infinite, every
\* comparison being false then).
NearestIn(sizes, x) ==
  LET Least(i) == \A j \in DOMAIN sizes :
                    ~NumLess(Distance(sizes[j], x), Distance(sizes[i], x))
      first == CHOOSE i \in DOMAIN sizes :
                 Least(i) /\ \A j \in 1 .. i - 1 : ~Least(j)
  IN  sizes[first]

\* A variant of Nearest whose reduce is given the initial value 0.
NearestFromZero(x) == NearestIn(<<0>> \o VALID_SIZES, x)

\* The nearest valid size: VALID_SIZES.reduce(...) without an initial value.
Nearest(x) == NearestIn(VALID_SIZES, x)

Size(w, h) == [width |-> w, height |-> h]

getNearestValidSize(width, height) ==
  LET nearestWidth == Nearest(Num(width))
      aspectRatio == NumDiv(Num(height), Num(width))
      scaledHeight == MathRound(NumMul(Num(nearestWidth), aspectRatio))
      nearestHeight == Nearest(scaledHeight)
      heightBasedWidth == MathRound(NumDiv(Num(nearestHeight), aspectRatio))
      nearestWidthFromHeight == Nearest(heightBasedWidth)
      widthFirstError ==
        MathAbs(NumSub(NumDiv(scaledHeight, Num(nearestWidth)), aspectRatio))
      heightFirstError ==
        MathAbs(NumSub(NumDiv(Num(nearestHeight), Num(nearestWidthFromHeight)),
                       aspectRatio))
  IN  IF NumLess(widthFirstError, heightFirstError)
        THEN Size(nearestWidth, nearestHeight)
        ELSE Size(nearestWidthFromHeight, nearestHeight)

\* The widths and heights the model calls the snapper with.
Dims == {0, 1, 2, 5, 96, 100, 240, 500, 1000, 1024, 2000}

\* How a call ends: kind "returned" with the pair, or kind "threw" with the
\* error's name.
NotCalled == [kind |-> "none", value |-> Size(0, 0), error |-> NULL]
Returned(v) == [kind |-> "returned", value |-> v, error |-> NULL]

SnapInit ==
  /\ snapArgs \in Dims \X Dims
  /\ snapRet = NotCalled

\* The call: the function has no throw statement, it returns on every input.
SnapCall ==
  /\ snapRet = NotCalled
  /\ snapRet' = Returned(getNearestValidSize(snapArgs[1], snapArgs[2]))
  /\ UNCHANGED <<srvVars, uiVars, snapArgs>>

\* The snapper before it is called; the other specifications leave it there.
SnapIdle ==
  /\ snapArgs = <<0, 0>>
  /\ snapRet = NotCalled

vars == <<srvVars, uiVars, snapVars>>

\* One request served by its route handler.
ServerNext == ServerStep

InitServer == ServerInit /\ UiIdle /\ SnapIdle

SpecServer == InitServer /\ [][ServerNext]_vars

\* One browser session; the responses of the routes are the environment's.
UiNext == UiStep

InitUi == UiInit /\ ServerIdle /\ SnapIdle

SpecUi == InitUi /\ [][UiNext]_vars

\* The editor at work on a generated thumbnail, no generation under way.
CanvasNext == EditorStep

InitCanvas == CanvasInit /\ ServerIdle /\ SnapIdle

SpecCanvas == InitCanvas /\ [][CanvasNext]_vars

\* The browser session in which every awaited call settles: each fetch
\* resolves or rejects and each image load ends, so the continuation of the
\* handler that awaits it runs.
Settles ==
  /\ WF_vars(GenerateResponse)
  /\ WF_vars(SaveMaskDone)
  /\ WF_vars(EditImgLoaded)
  /\ WF_vars(EditResponse)

InitUiLive == LiveInit /\ ServerIdle /\ SnapIdle

SpecUiLive == InitUiLive /\ [][UiNext]_vars /\ Settles

\* One call of the size snapper.
SnapNext == SnapCall

InitSnap == SnapInit /\ ServerIdle /\ UiIdle

SpecSnap == InitSnap /\ [][SnapNext]_vars

(***************************************************************************)
(* The claims.                                                             *)
(***************************************************************************)

\* The /api/edit requests sent and not yet answered.
EditsInFlight == {i \in DOMAIN edits : edits[i].stage = "fetch"}

\* C1: in one session at most one generate or edit request is in flight at
\* any time: no sequence of user actions starts a second one while a first
\* has been sent and has not returned.
C1_SingleRequestInFlight ==
  variant \in {"TE1", "TE2"} => gens + Cardinality(EditsInFlight) <= 1

\* The latest poll reported a status and no error payload.
PollAnswered == ~lastPoll.threw /\ lastPoll.status # "none" /\ ~Truthy(lastPoll.error)

\* C2: the edit handler issues at most 60 polls; a poll that reports
\* succeeded with no error payload is answered 200 with the reported output
\* URL (the first element of a list); 60 polls without a terminal status are
\* answered 500 'Timeout waiting for image generation'.
C2_PollUntilTerminalOrBound ==
  route = "edit" =>
    /\ nPolls <= maxAttempts
    /\ (srvPc = "done" /\ PollAnswered /\ lastPoll.status = "succeeded")
         => response = Respond(200, <<>>, OutputUrl(lastPoll.output))
    /\ (srvPc = "done" /\ PollAnswered /\ nPolls = maxAttempts
          /\ lastPoll.status \notin {"succeeded", "failed"})
         => response = Caught(TimeoutMsg)

\* C3: the edit handler answers with the Timeout error only when 60 polls
\* were made and none reported a terminal state; a request whose poll
\* reported succeeded is never answered with it, whatever the output.
C3_TimeoutOnlyPastBound ==
  (route = "edit" /\ response.error = TimeoutMsg) =>
    /\ nPolls = maxAttempts
    /\ PollAnswered
    /\ lastPoll.status \notin {"succeeded", "failed"}

\* A required input of the route is absent: prompt, image or mask missing or
\* empty (edit), prompt missing or empty (generate), maskData missing
\* (saveMask).
RequiredAbsent ==
  /\ reqBody.parsed
  /\ CASE route = "edit" ->
            \/ reqBody.prompt \in {UNDEF, ""}
            \/ reqBody.image \in {UNDEF, ""}
            \/ reqBody.mask \in {UNDEF, ""}
       [] route = "generate" -> reqBody.prompt \in {UNDEF, ""}
       [] route = "saveMask" -> reqBody.maskData = UNDEF

\* C4: a request with a required input absent is answered 400, and no
\* prediction is created, no poll made, nothing written to the database or
\* to a file for it.
C4_MissingFieldIs400 ==
  (srvPc \notin {"idle", "start"} /\ RequiredAbsent) =>
    /\ srvPc = "done"
    /\ response.status = 400
    /\ nCreate = 0 /\ nPolls = 0 /\ nDbWrites = 0 /\ nFileWrites = 0

\* C4's case: an edit request with only the mask missing was answered.
C4_Witness ==
  /\ route = "edit" /\ srvPc = "done"
  /\ Truthy(reqBody.prompt) /\ Truthy(reqBody.image) /\ reqBody.mask = UNDEF
  /\ response.status = 400

\* The latest poll carried an error payload or status failed.
PollFailed ==
  /\ ~lastPoll.threw
  /\ (Truthy(lastPoll.error) \/ lastPoll.status = "failed")

Contains(msg, piece) == \E i \in DOMAIN msg : msg[i] = piece

\* C5: in the edit handler the first poll carrying an error payload or
\* status failed ends the request with status 500, the error text containing
\* the remote's message when there was an error payload; no poll follows it
\* and the prediction is created once only.
C5_RemoteFailureIsTerminal ==
  /\ [](route = "edit" =>
          /\ nCreate <= 1
          /\ PollFailed =>
               /\ srvPc = "done"
               /\ response.status = 500
               /\ Truthy(lastPoll.error) => Contains(response.error, lastPoll.error))
  /\ [][(route = "edit" /\ PollFailed) => (nPolls' = nPolls /\ nCreate' = nCreate)]_vars

\* C5's case: the second poll carried an error payload and was answered.
C5_Witness ==
  /\ route = "edit" /\ srvPc = "done"
  /\ nPolls = 2 /\ lastPoll.error = "boom"
  /\ response.status = 500

NumLeq(a, b) == ~IsNaN(a) /\ ~IsNaN(b) /\ a[1] * b[2] <= b[1] * a[2]

\* C6: whenever an edit request is sent, the mask's pixel width and height
\* are the native width and height of the source image.
C6_MaskHasNativeSize ==
  \A i \in EditsInFlight :
    LET r == Val(edits[i].req) IN
    /\ r.mask.width = NaturalWidth(r.src)
    /\ r.mask.height = NaturalHeight(r.src)

MinInt(a, b) == IF a < b THEN a ELSE b

\* The rectangle the projection of the drag d = <<from, to>> onto the image
\* src gives: each field times true / display size of its axis, rounded.
Projected(d, src) ==
  LET scaleX == NumDiv(Num(NaturalWidth(src)), Num(disp[1]))
      scaleY == NumDiv(Num(NaturalHeight(src)), Num(disp[2]))
  IN  [x |-> MathRound(NumMul(Num(MinInt(d[1][1], d[2][1])), scaleX)),
       y |-> MathRound(NumMul(Num(MinInt(d[1][2], d[2][2])), scaleY)),
       width |-> MathRound(NumMul(Num(AbsInt(d[2][1] - d[1][1])), scaleX)),
       height |-> MathRound(NumMul(Num(AbsInt(d[2][2] - d[1][2])), scaleY))]

\* C7: on a canvas of display size > 0, the white rectangle of the submitted
\* mask is the drag's rectangle scaled once, per axis, by true / display size
\* and rounded, in every editor variant.
C7_WhiteRectangleIsProjection ==
  \A i \in EditsInFlight :
    (disp[1] > 0 /\ disp[2] > 0 /\ IsSome(edits[i].drag)) =>
      Val(edits[i].req).mask.fill = Projected(Val(edits[i].drag), edits[i].url)

\* C8: the rectangle that fills the mask lies inside the true image:
\* 0 <= x, 0 <= y, x + width <= true width, y + height <= true height.
C8_RectangleInsideImage ==
  \A i \in EditsInFlight :
    (disp[1] > 0 /\ disp[2] > 0) =>
      LET r == Val(edits[i].req)
          f == r.mask.fill
      IN  /\ NumLeq(Num(0), f.x)
          /\ NumLeq(Num(0), f.y)
          /\ NumLeq(NumSub(f.x, NumSub(Num(0), f.width)), Num(NaturalWidth(r.src)))
          /\ NumLeq(NumSub(f.y, NumSub(Num(0), f.height)), Num(NaturalHeight(r.src)))

\* C9: an edit request is never sent with a selection of width 0 or of
\* height 0.
C9_NoEmptySelectionSent ==
  \A i \in EditsInFlight :
    (disp[1] > 0 /\ disp[2] > 0) =>
      /\ NumLess(Num(0), edits[i].sel.width)
      /\ NumLess(Num(0), edits[i].sel.height)

\* C10: while the canvas's display width or height is 0, the editors that
\* convert mouse points (TE1, TE2) produce no start point, no selection and no
\* mask from a mouse event: the conversion fails instead of dividing by 0.
C10_UnresolvedCanvas ==
  (variant \in {"TE1", "TE2"} /\ (disp[1] = 0 \/ disp[2] = 0)) =>
    /\ startPos = InitialStartPos
    /\ selection = None
    /\ \A i \in DOMAIN edits : ~IsSome(edits[i].req)


\* C11: a selection has width >= 0 and height >= 0, and for the drag from the
\* start point s to the current point c it is {min(s.x, c.x), min(s.y, c.y),
\* |c.x - s.x|, |c.y - s.y|}, whatever the direction of the drag.
C11_SelectionNormalised ==
  (Mounted /\ IsSome(selection)) =>
    /\ IsSome(drag)
    /\ LET sel == Val(selection)
           s == Val(drag)[3]
           c == Val(drag)[4]
       IN  /\ NumLeq(Num(0), sel.width)
           /\ NumLeq(Num(0), sel.height)
           /\ sel.x = (IF NumLess(c.x, s.x) THEN c.x ELSE s.x)
           /\ sel.y = (IF NumLess(c.y, s.y) THEN c.y ELSE s.y)
           /\ sel.width = (IF NumLess(c.x, s.x) THEN NumSub(s.x, c.x) ELSE NumSub(c.x, s.x))
           /\ sel.height = (IF NumLess(c.y, s.y) THEN NumSub(s.y, c.y) ELSE NumSub(c.y, s.y))


\* C12: the selection is null once an edit has succeeded and once the editor
\* was cancelled, in every variant, and the editor opened next holds no
\* selection until a new drag is begun in it.
C12_SelectionCleared ==
  /\ lastClose \in {"edited", "cancelled"} => selection = None
  /\ (Mounted /\ ~IsSome(dragFrom)) => selection = None

\* C12's case: an edit made in the second ThumbnailEditor, whose handleEdit
\* does not call setSelection(null), has succeeded and closed the editor.
C12_Witness ==
  /\ variant = "TE2" /\ lastClose = "edited"
  /\ ~isEditing /\ Truthy(generatedImage) /\ selection = None


\* The call of the size snapper has ended, on positive arguments.
SnapReturnedPositive ==
  /\ snapRet.kind = "returned"
  /\ snapArgs[1] > 0 /\ snapArgs[2] > 0

Lattice == {VALID_SIZES[i] : i \in DOMAIN VALID_SIZES}

\* C13: for w > 0 and h > 0, getNearestValidSize(w, h) returns a pair whose
\* width and height are both members of VALID_SIZES.
C13_SnapInLattice ==
  SnapReturnedPositive =>
    /\ snapRet.value.width \in Lattice
    /\ snapRet.value.height \in Lattice

\* C13's case: 1000 x 500 was snapped to 1024 x 512.
C13_Witness ==
  /\ snapArgs = <<1000, 500>>
  /\ snapRet = Returned(Size(1024, 512))

\* The two candidate pairs for w x h: width first, (nearest to w, nearest to
\* round(thatWidth * h / w)); height first, (nearest to
\* round(nearestHeight * w / h), nearestHeight), nearestHeight the valid size
\* nearest to h.
WidthFirst(w, h) ==
  LET nw == Nearest(Num(w))
  IN  Size(nw, Nearest(MathRound(NumMul(Num(nw), NumDiv(Num(h), Num(w))))))

HeightFirst(w, h) ==
  LET nh == Nearest(Num(h))
  IN  Size(Nearest(MathRound(NumMul(Num(nh), NumDiv(Num(w), Num(h))))), nh)

\* |candidateHeight / candidateWidth - h / w|
AspectError(c, w, h) ==
  MathAbs(NumSub(NumDiv(Num(c.height), Num(c.width)), NumDiv(Num(h), Num(w))))

\* C14: for w, h > 0, getNearestValidSize(w, h) returns the candidate pair,
\* width first or height first, whose own aspect-ratio error is the lower.
C14_LowerAspectErrorWins ==
  SnapReturnedPositive =>
    LET w == snapArgs[1]
        h == snapArgs[2]
        wf == WidthFirst(w, h)
        hf == HeightFirst(w, h)
    IN  /\ NumLess(AspectError(wf, w, h), AspectError(hf, w, h)) => snapRet.value = wf
        /\ NumLess(AspectError(hf, w, h), AspectError(wf, w, h)) => snapRet.value = hf

\* C15: for w, h > 0 whose two candidates have equal aspect-ratio error,
\* getNearestValidSize(w, h) returns the width-first candidate, whose width
\* is the valid size nearest to w.
C15_TieKeepsWidthFirst ==
  SnapReturnedPositive =>
    LET w == snapArgs[1]
        h == snapArgs[2]
        wf == WidthFirst(w, h)
        hf == HeightFirst(w, h)
    IN  AspectError(wf, w, h) = AspectError(hf, w, h) =>
          /\ snapRet.value = wf
          /\ snapRet.value.width = Nearest(Num(w))

\* C16: getNearestValidSize(w, h) with w = 0 or h = 0 fails with an
\* InvalidDimension error and returns no pair.
C16_InvalidDimension ==
  (snapRet.kind # "none" /\ (snapArgs[1] = 0 \/ snapArgs[2] = 0)) =>
    /\ snapRet.kind = "threw"
    /\ snapRet.error = "InvalidDimension"


\* The handleEdit invocations of es that await the save-mask call, and those
\* whose /api/edit request is sent.
AwaitingSaveMask(es) == {i \in DOMAIN es : es[i].stage = "saveMask"}
EditSent(es) == {i \in DOMAIN es : es[i].stage = "fetch"}

\* C17: whenever the save-mask call of an accepted Apply Changes ends, with
\* status 200, 400 or 500 or by rejecting, the /api/edit request is sent: no
\* edit ends on the outcome of the save-mask call.
C17_SaveMaskIsNotRequired ==
  [][Cardinality(AwaitingSaveMask(edits')) < Cardinality(AwaitingSaveMask(edits))
       => Cardinality(EditSent(edits')) > Cardinality(EditSent(edits))]_vars


\* C18: a submission that is accepted sets loading and clears the error
\* (generateThumbnail in Home, handleEdit in the editors), and, every awaited
\* call settling, loading is false again later, on every path.
C18_LoadingEnds ==
  /\ [][gens' > gens => (hLoading' /\ hError' = NULL)]_vars
  /\ [][Len(edits') > Len(edits) => (eLoading' /\ eError' = NULL)]_vars
  /\ (hLoading ~> ~hLoading)
  /\ (eLoading ~> ~eLoading)

\* C18's case: an edit was answered with an error and the editor, still
\* open, is not loading any more.
C18_Witness ==
  /\ Mounted /\ eError = "server error"
  /\ ~eLoading /\ edits = <<>>


\* C19: a generate or edit request that ends in failure leaves generatedImage
\* and isEditing as they are and sets the error; the image is replaced, and
\* the editor closed by onEdit, only by a response that carries an image URL,
\* and an edit is made from the current image.
C19_FailureLeavesImage ==
  /\ [][gens' < gens =>
          IF Truthy(hError')
            THEN generatedImage' = generatedImage /\ isEditing' = isEditing
            ELSE generatedImage' \in Urls /\ isEditing' = isEditing]_vars
  /\ [][Cardinality(EditSent(edits')) < Cardinality(EditSent(edits)) =>
          \/ generatedImage' \in Urls /\ ~isEditing' /\ lastClose' = "edited"
          \/ /\ generatedImage' = generatedImage /\ isEditing' = isEditing
             /\ Mounted => Truthy(eError')]_vars
  /\ [][generatedImage' # generatedImage => generatedImage' \in Urls]_vars
  /\ [][Len(edits') > Len(edits) => edits'[Len(edits')].url = generatedImage]_vars

====
